---- MODULE Spec2Model ----
(***************************************************************************)
(* Model of PDFViewerScreen (src/app.py): the list of open PDFs, the       *)
(* cursor, the lock flag, the status label and the rendered page widgets,  *)
(* driven by the file picker, file drops and the Prev/Next/Lock buttons.   *)
(*                                                                         *)
(* Text (paths, label text) is a sequence of one-character strings, so     *)
(* that basename, lower, endswith and the f-string formatting are          *)
(* computed rather than assumed.                                           *)
(***************************************************************************)
EXTENDS Integers, Sequences, FiniteSets, TLC

(***************************************************************************)
(* Bounds of the model.                                                    *)
(***************************************************************************)
\* longest pdf_files list explored
MaxFiles == 3
\* longest selection the file picker hands over in one callback
MaxSel == 2

(***************************************************************************)
(* Text literals of the source.                                            *)
(***************************************************************************)
InitialText == <<"C", "l", "i", "c", "k", " ", "'", "O", "p", "e", "n", " ", "P", "D", "F", "s", "'", " ", "o", "r", " ", "d", "r", "a", "g", " ", "s", "o", "m", "e", " ", "i", "n", ".">>
NoPdfsSelected == <<"N", "o", " ", "P", "D", "F", "s", " ", "s", "e", "l", "e", "c", "t", "e", "d", ".">>
LoadingPrefix == <<"L", "o", "a", "d", "i", "n", "g", " ">>
LoadingSuffix == <<".", ".", ".">>
ErrorOpeningPrefix == <<"E", "r", "r", "o", "r", " ", "o", "p", "e", "n", "i", "n", "g", " ", "P", "D", "F", ":", "\n">>
ViewingPrefix == <<"V", "i", "e", "w", "i", "n", "g", " ">>
LockedText == <<" ", "(", "L", "o", "c", "k", "e", "d", ")">>
PdfExt == <<".", "p", "d", "f">>

(***************************************************************************)
(* The files of the explored world: what the user can pick or drop, and    *)
(* what fitz does with each of them.                                       *)
(***************************************************************************)
\* "/d/a.pdf": opens, two pages
PathA == <<"/", "d", "/", "a", ".", "p", "d", "f">>
\* "b.pdf": opens, one page
PathB == <<"b", ".", "p", "d", "f">>
\* "/C.PDF": upper-case extension, fitz.open raises
PathCorrupt == <<"/", "C", ".", "P", "D", "F">>
\* "/e.pdf": opens, three pages, get_pixmap raises on page 1
PathBadPage == <<"/", "e", ".", "p", "d", "f">>
\* "n.txt": not a PDF by name; fitz.open raises with an empty message
PathTxt == <<"n", ".", "t", "x", "t">>

Paths == {PathA, PathB, PathCorrupt, PathBadPage, PathTxt}

\* does fitz.open(path) return a document (TRUE) or raise (FALSE)
fitz_open_ok(path) == path \in {PathA, PathB, PathBadPage}

\* str(e) of the exception fitz.open raises
fitz_open_error(path) ==
    IF path = PathTxt THEN <<>>
    ELSE <<"n", "o", " ", "s", "u", "c", "h", " ", "f", "i", "l", "e">>

\* len(doc)
doc_len(path) ==
    CASE path = PathA -> 2
      [] path = PathB -> 1
      [] path = PathBadPage -> 3
      [] OTHER -> 0

\* does page.get_pixmap() / _png_to_texture succeed for this page
page_ok(path, page_num) == ~(path = PathBadPage /\ page_num = 1)

(***************************************************************************)
(* Python string and list primitives used by the handlers.                 *)
(***************************************************************************)
UpperCase == <<"A", "B", "C", "D", "E", "F", "G", "H", "I", "J", "K", "L", "M", "N", "O", "P", "Q", "R", "S", "T", "U", "V", "W", "X", "Y", "Z">>
LowerCase == <<"a", "b", "c", "d", "e", "f", "g", "h", "i", "j", "k", "l", "m", "n", "o", "p", "q", "r", "s", "t", "u", "v", "w", "x", "y", "z">>
Digits == <<"0", "1", "2", "3", "4", "5", "6", "7", "8", "9">>

\* str.lower() of one character
lower_char(c) ==
    IF \E k \in 1..Len(UpperCase) : UpperCase[k] = c
    THEN LowerCase[CHOOSE k \in 1..Len(UpperCase) : UpperCase[k] = c]
    ELSE c

\* str.lower()
lower(str) == [k \in 1..Len(str) |-> lower_char(str[k])]

\* str.endswith(suffix)
endswith(str, suffix) ==
    /\ Len(suffix) <= Len(str)
    /\ SubSeq(str, Len(str) - Len(suffix) + 1, Len(str)) = suffix

\* os.path.basename (posix): everything after the last "/"
basename(path) ==
    LET slashes == {k \in 1..Len(path) : path[k] = "/"}
        last == IF slashes = {} THEN 0
                ELSE CHOOSE k \in slashes : \A j \in slashes : j <= k
    IN SubSeq(path, last + 1, Len(path))

\* str(n) for a non-negative integer, as an f-string formats it
RECURSIVE int_str(_)
int_str(n) ==
    IF n < 10 THEN <<Digits[n + 1]>>
    ELSE int_str(n \div 10) \o <<Digits[(n % 10) + 1]>>

\* the printable ASCII characters, code 32 (space) to code 126 (~); code 96,
\* the grave accent, is spelled out
Ascii ==
    <<
      " ", "!", "\"", "#", "$", "%", "&", "'", "(", ")", "*", "+", ",", "-", ".", "/",
      "0", "1", "2", "3", "4", "5", "6", "7", "8", "9", ":", ";", "<", "=", ">", "?",
      "@", "A", "B", "C", "D", "E", "F", "G", "H", "I", "J", "K", "L", "M", "N", "O",
      "P", "Q", "R", "S", "T", "U", "V", "W", "X", "Y", "Z", "[", "\\", "]", "^", "_",
      "grave", "a", "b", "c", "d", "e", "f", "g", "h", "i", "j", "k", "l", "m", "n", "o",
      "p", "q", "r", "s", "t", "u", "v", "w", "x", "y", "z", "{", "|", "}", "~"
    >>

\* the UTF-8 bytes of a file name made of printable ASCII characters, as
\* the window hands them to on_dropfile
utf8_bytes(str) ==
    [k \in 1..Len(str) |->
        31 + (CHOOSE c \in 1..Len(Ascii) : Ascii[c] = str[k])]

\* bytes.decode("utf-8") of bytes below 128: one character per byte
decode_utf8(bytes) == [k \in 1..Len(bytes) |-> Ascii[bytes[k] - 31]]

\* list[i] with Python's indexing: 0-based, negative i counts from the end
py_index(list, i) == IF i < 0 THEN list[Len(list) + i + 1] ELSE list[i + 1]

\* list.extend(selection) with the dropped/selected paths put in front
list_extend_Front(list, selection) == selection \o list

\* list.extend(selection)
list_extend(list, selection) == list \o selection

(***************************************************************************)
(* State of the PDFViewerScreen.                                           *)
(*   pdf_files, current_index, pdf_locked : the Kivy properties           *)
(*   label     : ids.pdf_info_label.text                                   *)
(*   pages     : children of ids.pages_layout, one per rendered page       *)
(*   open_docs : paths of fitz documents opened and not closed             *)
(*   raised    : an exception left a handler and reached the event loop,   *)
(*               which registers no exception handler and stops the app    *)
(*   render    : what load_current_pdf did during the last handler, with   *)
(*               the list, cursor and lock it found on entry               *)
(*   lastOp    : the last handler run, its argument and the state before   *)
(***************************************************************************)
VARIABLES pdf_files, current_index, pdf_locked, label, pages, open_docs,
          raised, render, lastOp

vars == <<pdf_files, current_index, pdf_locked, label, pages, open_docs,
          raised, render, lastOp>>

\* no render pass ran
NoRender ==
    [outcome |-> "none", path |-> <<>>, files |-> <<>>, index |-> 0,
     locked |-> FALSE]

\* the screen as one record, the `self` the handlers work on
Screen ==
    [pdf_files |-> pdf_files, current_index |-> current_index,
     pdf_locked |-> pdf_locked, label |-> label, pages |-> pages,
     open_docs |-> open_docs, raised |-> raised, render |-> render]

\* the screen right after construction (class defaults and the KV rule)
InitScreen ==
    [pdf_files |-> <<>>, current_index |-> 0, pdf_locked |-> FALSE,
     label |-> InitialText, pages |-> <<>>, open_docs |-> {},
     raised |-> FALSE, render |-> NoRender]

(***************************************************************************)
(* The methods of PDFViewerScreen, each a function from the screen before  *)
(* the call to the screen after it.                                        *)
(***************************************************************************)
\* update_pdf_label formatting the 0-based cursor
update_pdf_label_ZeroBased(self) ==
    IF self.pdf_files = <<>>
    THEN [self EXCEPT !.label = NoPdfsSelected]
    ELSE LET current == self.current_index
             total == Len(self.pdf_files)
             name == basename(py_index(self.pdf_files, self.current_index))
             locked_text == IF self.pdf_locked THEN LockedText ELSE <<>>
         IN [self EXCEPT !.label = ViewingPrefix \o int_str(current) \o <<"/">>
                                     \o int_str(total) \o <<":", " ">> \o name
                                     \o locked_text]

update_pdf_label(self) ==
    IF self.pdf_files = <<>>
    THEN [self EXCEPT !.label = NoPdfsSelected]
    ELSE LET current == self.current_index + 1
             total == Len(self.pdf_files)
             name == basename(py_index(self.pdf_files, self.current_index))
             locked_text == IF self.pdf_locked THEN LockedText ELSE <<>>
         IN [self EXCEPT !.label = ViewingPrefix \o int_str(current) \o <<"/">>
                                     \o int_str(total) \o <<":", " ">> \o name
                                     \o locked_text]

\* the page loop of load_current_pdf, from page_num on, then close and label
RECURSIVE render_pages(_, _, _)
render_pages(self, pdf_path, page_num) ==
    IF page_num >= doc_len(pdf_path)
    THEN update_pdf_label([self EXCEPT !.open_docs = @ \ {pdf_path},
                                       !.render.outcome = "ok"])
    ELSE IF ~page_ok(pdf_path, page_num)
         THEN [self EXCEPT !.raised = TRUE, !.render.outcome = "page_error"]
         ELSE render_pages(
                  [self EXCEPT !.pages = Append(@, [doc |-> pdf_path,
                                                    page |-> page_num])],
                  pdf_path, page_num + 1)

\* load_current_pdf clearing the old pages only once the document opened
load_current_pdf_ClearAfterOpen(self) ==
    IF self.pdf_files = <<>>
    THEN [self EXCEPT !.label = NoPdfsSelected]
    ELSE LET pdf_path == py_index(self.pdf_files, self.current_index)
             name == basename(pdf_path)
             entered == [self EXCEPT
                 !.label = LoadingPrefix \o name \o LoadingSuffix,
                 !.render = [outcome |-> "started", path |-> pdf_path,
                             files |-> self.pdf_files,
                             index |-> self.current_index,
                             locked |-> self.pdf_locked]]
         IN IF ~fitz_open_ok(pdf_path)
            THEN [entered EXCEPT
                     !.label = ErrorOpeningPrefix \o fitz_open_error(pdf_path),
                     !.render.outcome = "open_error"]
            ELSE render_pages(
                     [entered EXCEPT !.pages = <<>>,
                                     !.open_docs = @ \cup {pdf_path}],
                     pdf_path, 0)

\* load_current_pdf without pages_layout.clear_widgets()
load_current_pdf_NoClear(self) ==
    IF self.pdf_files = <<>>
    THEN [self EXCEPT !.label = NoPdfsSelected]
    ELSE LET pdf_path == py_index(self.pdf_files, self.current_index)
             name == basename(pdf_path)
             entered == [self EXCEPT
                 !.label = LoadingPrefix \o name \o LoadingSuffix,
                 !.render = [outcome |-> "started", path |-> pdf_path,
                             files |-> self.pdf_files,
                             index |-> self.current_index,
                             locked |-> self.pdf_locked]]
         IN IF ~fitz_open_ok(pdf_path)
            THEN [entered EXCEPT
                     !.label = ErrorOpeningPrefix \o fitz_open_error(pdf_path),
                     !.render.outcome = "open_error"]
            ELSE render_pages(
                     [entered EXCEPT !.open_docs = @ \cup {pdf_path}],
                     pdf_path, 0)

load_current_pdf(self) ==
    IF self.pdf_files = <<>>
    THEN [self EXCEPT !.label = NoPdfsSelected]
    ELSE LET pdf_path == py_index(self.pdf_files, self.current_index)
             name == basename(pdf_path)
             entered == [self EXCEPT
                 !.label = LoadingPrefix \o name \o LoadingSuffix,
                 !.pages = <<>>,
                 !.render = [outcome |-> "started", path |-> pdf_path,
                             files |-> self.pdf_files,
                             index |-> self.current_index,
                             locked |-> self.pdf_locked]]
         IN IF ~fitz_open_ok(pdf_path)
            THEN [entered EXCEPT
                     !.label = ErrorOpeningPrefix \o fitz_open_error(pdf_path),
                     !.render.outcome = "open_error"]
            ELSE render_pages(
                     [entered EXCEPT !.open_docs = @ \cup {pdf_path}],
                     pdf_path, 0)

handle_pdfs_selection(self, selection) ==
    IF selection = <<>>
    THEN [self EXCEPT !.label = NoPdfsSelected]
    ELSE LET extended == [self EXCEPT
                 !.pdf_files = list_extend(@, selection)]
         IN IF Len(selection) # 0
               /\ Len(extended.pdf_files) = Len(selection)
            THEN load_current_pdf([extended EXCEPT !.current_index = 0])
            ELSE update_pdf_label(extended)

\* prev_pdf stepping back without the modulo
prev_pdf_NoWrap(self) ==
    IF self.pdf_locked THEN self
    ELSE IF self.pdf_files # <<>>
         THEN load_current_pdf([self EXCEPT !.current_index = @ - 1])
         ELSE self

prev_pdf(self) ==
    IF self.pdf_locked THEN self
    ELSE IF self.pdf_files # <<>>
         THEN load_current_pdf([self EXCEPT
                  !.current_index = (@ - 1) % Len(self.pdf_files)])
         ELSE self

\* next_pdf without the lock test
next_pdf_IgnoreLock(self) ==
    IF self.pdf_files # <<>>
    THEN load_current_pdf([self EXCEPT
             !.current_index = (@ + 1) % Len(self.pdf_files)])
    ELSE self

\* next_pdf stopping at the last document instead of wrapping
next_pdf_Clamp(self) ==
    IF self.pdf_locked THEN self
    ELSE IF self.pdf_files # <<>>
         THEN load_current_pdf([self EXCEPT
                  !.current_index = IF @ + 1 < Len(self.pdf_files)
                                    THEN @ + 1 ELSE @])
         ELSE self

next_pdf(self) ==
    IF self.pdf_locked THEN self
    ELSE IF self.pdf_files # <<>>
         THEN load_current_pdf([self EXCEPT
                  !.current_index = (@ + 1) % Len(self.pdf_files)])
         ELSE self

toggle_lock(self) ==
    update_pdf_label([self EXCEPT !.pdf_locked = ~@])

\* add_dropped_pdf jumping to the dropped document
add_dropped_pdf_ShowDropped(self, path) ==
    LET lower_path == lower(path)
    IN IF ~endswith(lower_path, PdfExt) THEN self
       ELSE LET old_len == Len(self.pdf_files)
                appended == [self EXCEPT !.pdf_files = Append(@, path)]
            IN load_current_pdf([appended EXCEPT !.current_index = old_len])

\* add_dropped_pdf without the extension test
add_dropped_pdf_AnyFile(self, path) ==
    LET old_len == Len(self.pdf_files)
        appended == [self EXCEPT !.pdf_files = Append(@, path)]
    IN IF old_len = 0
       THEN load_current_pdf([appended EXCEPT !.current_index = 0])
       ELSE update_pdf_label(appended)

add_dropped_pdf(self, path) ==
    LET lower_path == lower(path)
    IN IF ~endswith(lower_path, PdfExt) THEN self
       ELSE LET old_len == Len(self.pdf_files)
                appended == [self EXCEPT !.pdf_files = Append(@, path)]
            IN IF old_len = 0
               THEN load_current_pdf([appended EXCEPT !.current_index = 0])
               ELSE update_pdf_label(appended)

\* MyApp._handle_file_drop: decode the bytes and hand the path to the screen
handle_file_drop(self, file_path) ==
    LET path_str == decode_utf8(file_path)
    IN add_dropped_pdf(self, path_str)

(***************************************************************************)
(* The event loop: one action per callback.  A handler runs to its end (or *)
(* to the exception that leaves it); once an exception has reached the     *)
(* loop the application is gone and nothing runs any more.                 *)
(***************************************************************************)
\* the selections the file picker can deliver, cancelled (empty) included
Selections ==
    UNION {[1..n -> Paths] : n \in 0..MaxSel}

\* run one handler: `after` is the screen it leaves
Dispatch(kind, arg, after) ==
    /\ pdf_files' = after.pdf_files
    /\ current_index' = after.current_index
    /\ pdf_locked' = after.pdf_locked
    /\ label' = after.label
    /\ pages' = after.pages
    /\ open_docs' = after.open_docs
    /\ raised' = after.raised
    /\ render' = after.render
    /\ lastOp' = [kind |-> kind, arg |-> arg,
                  pre |-> [Screen EXCEPT !.render = NoRender]]

\* the screen a handler starts from: no render pass of its own yet
Entry == [Screen EXCEPT !.render = NoRender]

Init ==
    /\ pdf_files = InitScreen.pdf_files
    /\ current_index = InitScreen.current_index
    /\ pdf_locked = InitScreen.pdf_locked
    /\ label = InitScreen.label
    /\ pages = InitScreen.pages
    /\ open_docs = InitScreen.open_docs
    /\ raised = InitScreen.raised
    /\ render = InitScreen.render
    /\ lastOp = [kind |-> "init", arg |-> <<>>, pre |-> InitScreen]

\* "Open PDFs": the picker calls handle_pdfs_selection with the selection
OpenPdfs ==
    /\ ~raised
    /\ \E selection \in Selections :
          /\ Len(pdf_files) + Len(selection) <= MaxFiles
          /\ Dispatch("select", selection,
                      handle_pdfs_selection(Entry, selection))

\* the file names, as bytes, that a drop can deliver
DroppedFiles == {utf8_bytes(path) : path \in Paths}

\* a file dragged onto the window
FileDrop ==
    /\ ~raised
    /\ \E file_path \in DroppedFiles :
          /\ Len(pdf_files) < MaxFiles
          /\ Dispatch("drop", file_path, handle_file_drop(Entry, file_path))

\* "< Prev PDF"
PrevPdf ==
    /\ ~raised
    /\ Dispatch("prev", <<>>, prev_pdf(Entry))

\* "Next PDF >"
NextPdf ==
    /\ ~raised
    /\ Dispatch("next", <<>>, next_pdf(Entry))

\* "Lock PDF"
ToggleLock ==
    /\ ~raised
    /\ Dispatch("toggle_lock", <<>>, toggle_lock(Entry))

Next == OpenPdfs \/ FileDrop \/ PrevPdf \/ NextPdf \/ ToggleLock

Spec == Init /\ [][Next]_vars

(***************************************************************************)
(* Vocabulary of the properties.                                           *)
(***************************************************************************)
\* the screen before the last handler ran
Pre == lastOp.pre

\* the last handler was a navigation button
Navigated == lastOp.kind \in {"next", "prev"}

\* a path whose name ends in ".pdf", letter case ignored
IsPdfName(path) == endswith(lower(path), PdfExt)

\* the path of the file the last drop delivered
Dropped == decode_utf8(lastOp.arg)

\* the last handler was an append that had something to append
Appended ==
    \/ lastOp.kind = "select" /\ lastOp.arg # <<>>
    \/ lastOp.kind = "drop" /\ IsPdfName(Dropped)

\* the paths the last append had to append, in order
AppendedPaths ==
    IF lastOp.kind = "select" THEN lastOp.arg ELSE <<Dropped>>

\* the last handler changed the list, the cursor or the lock
Mutated ==
    \/ Appended
    \/ Navigated /\ ~Pre.pdf_locked /\ Pre.pdf_files # <<>>
    \/ lastOp.kind = "toggle_lock"

\* text begins with prefix
StartsWith(text, prefix) ==
    /\ Len(prefix) <= Len(text)
    /\ SubSeq(text, 1, Len(prefix)) = prefix

\* the list, the cursor, the lock, the pages and the status are those of Pre
SameView ==
    /\ pdf_files = Pre.pdf_files
    /\ current_index = Pre.current_index
    /\ pdf_locked = Pre.pdf_locked
    /\ pages = Pre.pages
    /\ label = Pre.label

\* every page of a document, in page order
AllPages(path) == [k \in 1..doc_len(path) |-> [doc |-> path, page |-> k - 1]]

(***************************************************************************)
(* C1                                                                      *)
(***************************************************************************)
\* C1: whenever the document list is non-empty, the cursor is a valid
\* index into it: 0 <= current_index <= len(pdf_files) - 1.
C1_IndexInRange ==
    pdf_files # <<>> =>
        /\ 0 <= current_index
        /\ current_index <= Len(pdf_files) - 1

\* prev_pdf at index 0 of a list of at least two wrapped to the last index
C1_Witness ==
    /\ lastOp.kind = "prev"
    /\ ~Pre.pdf_locked
    /\ Pre.current_index = 0
    /\ Len(pdf_files) >= 2
    /\ current_index = Len(pdf_files) - 1

(***************************************************************************)
(* C2                                                                      *)
(***************************************************************************)
\* C2: a non-empty selection handed to handle_pdfs_selection, locked or
\* not, makes the list the old list followed by the selection in its
\* order: the length grows by len(selection), the old list is a prefix,
\* and paths already present are added again.
C2_AppendKeepsOrder ==
    (lastOp.kind = "select" /\ lastOp.arg # <<>>) =>
        LET old == Pre.pdf_files
            sel == lastOp.arg
        IN /\ Len(pdf_files) = Len(old) + Len(sel)
           /\ \A k \in 1..Len(old) : pdf_files[k] = old[k]
           /\ \A k \in 1..Len(sel) : pdf_files[Len(old) + k] = sel[k]

\* a locked, non-empty list took a two-path selection repeating its first path
C2_Witness ==
    /\ lastOp.kind = "select"
    /\ Pre.pdf_locked
    /\ Pre.pdf_files # <<>>
    /\ Len(lastOp.arg) = 2
    /\ lastOp.arg[1] = Pre.pdf_files[1]
    /\ lastOp.arg[1] # lastOp.arg[2]
    /\ Len(pdf_files) = Len(Pre.pdf_files) + 2

(***************************************************************************)
(* C3                                                                      *)
(***************************************************************************)
\* C3 as stated: while locked, next_pdf and prev_pdf change nothing, no
\* render runs, and the status ends in " (Locked)".
C3_LockedStatusEndsLocked ==
    (Navigated /\ Pre.pdf_locked) =>
        /\ SameView
        /\ render.outcome = "none"
        /\ endswith(label, LockedText)

\* C3 amended: while locked, next_pdf and prev_pdf change nothing (list,
\* cursor, lock, pages, status text) and no render runs; the status ends in
\* " (Locked)" whenever it is a "Viewing ..." status; toggle_lock flips the
\* lock and leaves the list and the cursor alone.
C3_LockedNavigationNoOp ==
    /\ (Navigated /\ Pre.pdf_locked) =>
           /\ SameView
           /\ open_docs = Pre.open_docs
           /\ ~raised
           /\ render.outcome = "none"
           /\ StartsWith(label, ViewingPrefix) => endswith(label, LockedText)
    /\ lastOp.kind = "toggle_lock" =>
           /\ pdf_locked = ~Pre.pdf_locked
           /\ pdf_files = Pre.pdf_files
           /\ current_index = Pre.current_index

\* next_pdf was pressed on a locked list of at least two documents
C3_Witness ==
    /\ lastOp.kind = "next"
    /\ Pre.pdf_locked
    /\ Len(pdf_files) >= 2
    /\ endswith(label, LockedText)

(***************************************************************************)
(* C4                                                                      *)
(***************************************************************************)
\* C4: unlocked and with n > 0 documents at index i, next_pdf moves the
\* cursor to i+1, or to 0 from n-1, and prev_pdf to i-1, or to n-1 from 0;
\* on an empty list both do nothing; neither changes the list or the lock.
C4_NavigationWraps ==
    LET i == Pre.current_index
        n == Len(Pre.pdf_files)
    IN /\ (lastOp.kind = "next" /\ ~Pre.pdf_locked /\ n > 0) =>
              current_index = IF i = n - 1 THEN 0 ELSE i + 1
       /\ (lastOp.kind = "prev" /\ ~Pre.pdf_locked /\ n > 0) =>
              current_index = IF i = 0 THEN n - 1 ELSE i - 1
       /\ (Navigated /\ n = 0) => Screen = Pre
       /\ Navigated => pdf_files = Pre.pdf_files /\ pdf_locked = Pre.pdf_locked

\* next_pdf at the last of at least two documents wrapped to index 0
C4_Witness ==
    /\ lastOp.kind = "next"
    /\ ~Pre.pdf_locked
    /\ Len(Pre.pdf_files) >= 2
    /\ Pre.current_index = Len(Pre.pdf_files) - 1
    /\ current_index = 0

(***************************************************************************)
(* C5                                                                      *)
(***************************************************************************)
\* C5: an append (picker or recognised drop) to a non-empty list leaves
\* the cursor, the lock and the pages alone and runs no render; an append
\* to the empty list puts the cursor on 0 and runs a render of the first new
\* document; an empty selection leaves list, cursor and lock alone.
C5_AppendKeepsCursor ==
    /\ (Appended /\ Pre.pdf_files # <<>>) =>
           /\ current_index = Pre.current_index
           /\ pdf_locked = Pre.pdf_locked
           /\ pages = Pre.pages
           /\ render.outcome = "none"
    /\ (Appended /\ Pre.pdf_files = <<>>) =>
           /\ pdf_files # <<>>
           /\ current_index = 0
           /\ pdf_locked = Pre.pdf_locked
           /\ render.outcome # "none"
           /\ render.index = 0
           /\ render.path = AppendedPaths[1]
    /\ (lastOp.kind = "select" /\ lastOp.arg = <<>>) =>
           /\ pdf_files = Pre.pdf_files
           /\ current_index = Pre.current_index
           /\ pdf_locked = Pre.pdf_locked

\* a recognised drop onto a list whose cursor is past the first document
C5_Witness ==
    /\ lastOp.kind = "drop"
    /\ IsPdfName(Dropped)
    /\ Pre.current_index >= 1
    /\ Len(pdf_files) = Len(Pre.pdf_files) + 1
    /\ current_index = Pre.current_index

(***************************************************************************)
(* C6                                                                      *)
(***************************************************************************)
\* C6: dropping a path whose name does not end in ".pdf" (letter case
\* ignored, as add_dropped_pdf compares) leaves the whole screen as it was;
\* dropping one that does leaves exactly the screen that
\* handle_pdfs_selection([path]) leaves, one document longer.  "n.txt" is
\* ignored, "/d/a.pdf" is taken.
C6_DropLikePicker ==
    lastOp.kind = "drop" =>
        /\ IF IsPdfName(Dropped)
           THEN /\ Screen = handle_pdfs_selection(Pre, <<Dropped>>)
                /\ Len(pdf_files) = Len(Pre.pdf_files) + 1
           ELSE Screen = Pre
        /\ Dropped = PathTxt => Len(pdf_files) = Len(Pre.pdf_files)
        /\ Dropped = PathA =>
               /\ Len(pdf_files) = Len(Pre.pdf_files) + 1
               /\ pdf_files[Len(pdf_files)] = PathA

\* "n.txt" was dropped onto a non-empty list and nothing changed
C6_Witness ==
    /\ lastOp.kind = "drop"
    /\ Dropped = PathTxt
    /\ Pre.pdf_files # <<>>
    /\ Pre.pages # <<>>
    /\ Screen = Pre

(***************************************************************************)
(* C7                                                                      *)
(***************************************************************************)
\* C7: when fitz.open fails in load_current_pdf the exception is caught:
\* no page is displayed, the status is a non-empty error text, the list,
\* the cursor and the lock are those load_current_pdf was entered with, the
\* failing document is still the current one, and the application goes on.
C7_OpenFailureCaught ==
    render.outcome = "open_error" =>
        /\ pages = <<>>
        /\ label # <<>>
        /\ StartsWith(label, ErrorOpeningPrefix)
        /\ pdf_files = render.files
        /\ current_index = render.index
        /\ pdf_locked = render.locked
        /\ py_index(pdf_files, current_index) = render.path
        /\ open_docs = {}
        /\ ~raised

\* next_pdf moved from a displayed document to one that does not open
C7_Witness ==
    /\ render.outcome = "open_error"
    /\ lastOp.kind = "next"
    /\ Pre.pages # <<>>
    /\ Len(pdf_files) >= 2
    /\ pages = <<>>

(***************************************************************************)
(* C8                                                                      *)
(***************************************************************************)
\* C8: after a handler whose render pass opened a document, no document
\* handle is open, also when rasterizing a page k > 0 failed, and then the
\* pages 0..k-1 are displayed.
C8_HandleClosed ==
    render.outcome \in {"ok", "page_error"} =>
        /\ open_docs = {}
        /\ \A k \in 1..Len(pages) :
               pages[k] = [doc |-> render.path, page |-> k - 1]

(***************************************************************************)
(* C9                                                                      *)
(***************************************************************************)
\* C9: after a handler that changed a list that is now non-empty, and whose
\* render, if it ran one, succeeded, the status is
\* "Viewing {current_index+1}/{len(pdf_files)}: {basename}" followed by
\* " (Locked)" exactly when locked.  Appending /d/a.pdf and b.pdf to the
\* empty list gives "Viewing 1/2: a.pdf", next_pdf "Viewing 2/2: b.pdf".
C9_StatusText ==
    /\ (Mutated /\ pdf_files # <<>> /\ render.outcome \in {"none", "ok"}) =>
           /\ label = ViewingPrefix \o int_str(current_index + 1) \o <<"/">>
                        \o int_str(Len(pdf_files)) \o <<":", " ">>
                        \o basename(pdf_files[current_index + 1])
                        \o (IF pdf_locked THEN LockedText ELSE <<>>)
           /\ endswith(label, LockedText) <=> pdf_locked
    /\ (lastOp.kind = "select" /\ Pre = InitScreen
          /\ lastOp.arg = <<PathA, PathB>>) =>
           label = <<"V", "i", "e", "w", "i", "n", "g", " ", "1", "/", "2", ":", " ", "a", ".", "p", "d", "f">>
    /\ (lastOp.kind = "next" /\ ~Pre.pdf_locked /\ Pre.current_index = 0
          /\ Pre.pdf_files = <<PathA, PathB>>) =>
           label = <<"V", "i", "e", "w", "i", "n", "g", " ", "2", "/", "2", ":", " ", "b", ".", "p", "d", "f">>

\* next_pdf from /d/a.pdf to b.pdf left "Viewing 2/2: b.pdf"
C9_Witness ==
    /\ lastOp.kind = "next"
    /\ Pre.pdf_files = <<PathA, PathB>>
    /\ Pre.current_index = 0
    /\ current_index = 1
    /\ render.outcome = "ok"

(***************************************************************************)
(* C10                                                                     *)
(***************************************************************************)
\* C10: after every handler the displayed pages are none, or pages of the
\* current document only, in page order from page 0; after a render that
\* succeeded they are all pages of the current document.
C10_PagesOfCurrent ==
    /\ pages # <<>> =>
           /\ pdf_files # <<>>
           /\ 0 <= current_index /\ current_index < Len(pdf_files)
           /\ LET cur == pdf_files[current_index + 1]
              IN /\ Len(pages) <= doc_len(cur)
                 /\ \A k \in 1..Len(pages) :
                        pages[k] = [doc |-> cur, page |-> k - 1]
    /\ render.outcome = "ok" =>
           /\ render.path = pdf_files[current_index + 1]
           /\ pages = AllPages(render.path)

\* next_pdf replaced the pages of one document by all pages of another
C10_Witness ==
    /\ lastOp.kind = "next"
    /\ render.outcome = "ok"
    /\ Pre.pages # <<>>
    /\ pages # <<>>
    /\ Pre.pages[1].doc # pages[1].doc
    /\ Len(pages) = doc_len(pdf_files[current_index + 1])

====
